---- MODULE Spec2Model ----
(***************************************************************************)
(* Model of WebCrawler (src/main.py): the recursive same-domain crawl,     *)
(* its visited set and its insertion-ordered index.                        *)
(*                                                                         *)
(* A URL text is modelled by the pieces urllib splits it into:             *)
(*   scheme "://" netloc path q      e.g. https :// example.com /about     *)
(* with scheme = "" for a text without "scheme:", netloc = "" for a text   *)
(* without "//netloc", and q = "?" for a text that ends in an empty query. *)
(* Two texts are the same Python string iff the records are equal.         *)
(***************************************************************************)
EXTENDS Integers, Sequences, FiniteSets, TLC

\* ------------------------------------------------------------------ bounds
MaxAnchors == 3   \* anchors in all the pages served over a behaviour
MaxCalls   == 2   \* top-level crawl calls on the one crawler
MaxText    == 3   \* characters in all the page texts that search is given
MaxKey     == 2   \* characters in a search keyword

\* ------------------------------------------------------------ URL texts
U(s, n, p, q) == [scheme |-> s, netloc |-> n, path |-> p, q |-> q]

EmptyStr == U("", "", "", "")                      \* ""
SeedUrl  == U("https", "example.com", "", "")      \* https://example.com
SeedQ    == U("https", "example.com", "", "?")     \* https://example.com?
AboutUrl == U("https", "example.com", "/about", "")\* https://example.com/about
RelAbout == U("", "", "/about", "")                \* /about
ExtUrl   == U("https", "external.com", "", "")     \* https://external.com
HtpUrl   == U("htp", "example.com", "", "")        \* htp://example.com
BadUrl   == U("http", "[bad", "", "")              \* http://[bad

\* href attribute values that pages may carry, and the seeds main()/tests use
Hrefs == {EmptyStr, SeedUrl, SeedQ, AboutUrl, RelAbout, ExtUrl, HtpUrl, BadUrl}
Seeds == {SeedUrl, SeedQ}

\* page texts (soup.get_text()): the empty text and a non-empty one
Texts == {<<>>, <<"k">>}

\* ---------------------------------------------------------------- urllib
\* urllib.parse schemes that urljoin resolves within
uses_relative == {"", "http", "https"}
uses_netloc   == {"", "http", "https"}

\* urlparse raises ValueError("Invalid IPv6 URL") on an unbalanced bracket
ParseRaises(t) == t.netloc = "[bad"

\* urlparse(t): the components; an empty query and no query both give ""
urlparse(t) == [scheme |-> t.scheme, netloc |-> t.netloc, path |-> t.path, query |-> ""]

\* urlunparse(components): the text; an empty query is not written back
urlunparse(s, n, p, qy) == U(s, n, p, "")

\* urljoin(base, url) of urllib.parse
urljoin(base, url) ==
  IF base = EmptyStr THEN url
  ELSE IF url = EmptyStr THEN base
  ELSE LET b == urlparse(base)
           u == urlparse(url)
           scheme == IF u.scheme = "" THEN b.scheme ELSE u.scheme
       IN  IF scheme # b.scheme \/ scheme \notin uses_relative THEN url
           ELSE IF scheme \in uses_netloc /\ u.netloc # ""
                THEN urlunparse(scheme, u.netloc, u.path, u.query)
           ELSE IF u.path = ""
                THEN urlunparse(scheme, b.netloc, b.path, b.query)
           ELSE urlunparse(scheme, b.netloc, u.path, u.query)

\* ------------------------------------------------------------------ state
VARIABLES
  visited,   \* self.visited
  index,     \* self.index, in insertion order: <<[url, text], ...>>
  stack,     \* the active crawl frames, innermost last
  web,       \* the kind of response requests.get gave for each URL fetched
  fetched,   \* the URLs passed to requests.get, in call order
  anchors,   \* how many anchors the pages served so far carried
  calls,     \* the seeds of the top-level crawl calls made, in order
  last       \* the keyword and the return value of the latest search call

vars == <<visited, index, stack, web, fetched, anchors, calls, last>>

\* no search call since the latest crawl call (crawl returns None)
NoSearch == [op |-> "crawl", keyword |-> <<>>, results |-> <<>>]

\* line 35 and 42 with url for `base_url or url`: the page's own URL is the base
BaseOrCurrent(base_url, url) == url

\* `base_url or url` (None and "" are falsy); None is <<>>, a string s is <<s>>
BaseOr(base_url, url) ==
  IF base_url = <<>> \/ base_url = <<EmptyStr>> THEN url ELSE base_url[1]

IndexKeys(idx) == {idx[k].url : k \in 1..Len(idx)}

\* line 29 guarded by `if text:`: a page without text gets no entry
IndexSetNonEmpty(idx, url, text) ==
  IF text = <<>> THEN idx ELSE Append(idx, [url |-> url, text |-> text])

\* line 29 as `self.index = {url: text}`: the entries of earlier pages are lost
IndexSetAlone(idx, url, text) == <<[url |-> url, text |-> text]>>

\* self.index[url] = text on an insertion-ordered dict
IndexSet(idx, url, text) ==
  IF url \in IndexKeys(idx)
  THEN [k \in 1..Len(idx) |-> IF idx[k].url = url THEN [url |-> url, text |-> text] ELSE idx[k]]
  ELSE Append(idx, [url |-> url, text |-> text])

SeqsUpTo(S, n) == UNION {[1..m -> S] : m \in 0..n}

Top == stack[Len(stack)]

\* the innermost frame returns to its caller (lines 17, 26, 45, end of crawl)
Return(stk) == SubSeq(stk, 1, Len(stk) - 1)

Init ==
  /\ visited = {}
  /\ index = <<>>
  /\ stack = <<>>
  /\ web = [u \in {} |-> "none"]
  /\ fetched = <<>>
  /\ anchors = 0
  /\ calls = <<>>
  /\ last = NoSearch

\* ---------------------------------------------------------------- crawl
Frame(url, base_url) ==
  [url |-> url, base |-> base_url, links |-> <<>>, text |-> <<>>, i |-> 0, pc |-> "fetch"]

\* line 16 without its guard: every call goes on to fetch
AlreadyVisitedNever(url) == FALSE

\* line 16 letting through a URL whose fetch failed, for another try
AlreadyVisitedUnlessFailed(url) ==
  url \in visited /\ (url \in DOMAIN web => web[url] # "error")

\* line 16: `if url in self.visited: return`
AlreadyVisited(url) == url \in visited

\* line 18 left out: the URL is never marked
EnterVisitedNot(url) == visited

\* lines 15-18, the entry of crawl(url, base_url) called with the frames stk
\* active: a visited URL returns at once, any other is marked and goes on to
\* its fetch
EnterVisited(url) == visited \cup {url}

\* line 42 as an append to a work queue: the linked page waits until the pages
\* linking to it are done
EnterStackQueue(stk, url, base_url) ==
  IF AlreadyVisited(url) THEN stk ELSE <<Frame(url, base_url)>> \o stk

EnterStack(stk, url, base_url) ==
  IF AlreadyVisited(url) THEN stk ELSE Append(stk, Frame(url, base_url))

\* lines 34-35: only an href that has a network location is joined
ResolveHref(base, href) ==
  IF urlparse(href).netloc # "" THEN urljoin(base, href) ELSE href

\* lines 37-41 without the comparison: every href is followed
SameDomainAlways(base, href) == TRUE

\* lines 37-41: the same-domain test on the (possibly joined) href
SameDomain(base, href) == urlparse(href).netloc = urlparse(base).netloc

\* lines 23-29 without the content-type test: every response is indexed
IndexAfterAlways(kind, url, text) == IndexSet(index, url, text)

\* lines 23-29: only a response whose content type has "html" in it is parsed
\* and written to the index
IndexAfter(kind, url, text) ==
  IF kind = "html" THEN IndexSet(index, url, text) ELSE index

Record(url, kind) ==
  [u \in DOMAIN web \cup {url} |-> IF u = url THEN kind ELSE web[u]]

Advance(stk) == [stk EXCEPT ![Len(stk)].i = @ + 1]

\* a caller (main, a test) calls crawler.crawl(seed)
Crawl(seed) ==
  /\ stack = <<>>
  /\ Len(calls) < MaxCalls
  /\ calls' = Append(calls, seed)
  /\ visited' = EnterVisited(seed)
  /\ stack' = EnterStack(stack, seed, <<>>)
  /\ last' = NoSearch
  /\ UNCHANGED <<index, web, fetched, anchors>>

\* line 21 raises (or anything up to line 28 does): lines 44-45 log, return
FetchError ==
  /\ stack # <<>> /\ Top.pc = "fetch"
  /\ fetched' = Append(fetched, Top.url)
  /\ web' = Record(Top.url, "error")
  /\ index' = IndexAfter("error", Top.url, <<>>)
  /\ stack' = Return(stack)
  /\ UNCHANGED <<visited, anchors, calls, last>>

\* lines 21-26: the content type has no "html" in it: warn, return
FetchNonHtml ==
  /\ stack # <<>> /\ Top.pc = "fetch"
  /\ fetched' = Append(fetched, Top.url)
  /\ web' = Record(Top.url, "nonhtml")
  /\ index' = IndexAfter("nonhtml", Top.url, <<>>)
  /\ stack' = Return(stack)
  /\ UNCHANGED <<visited, anchors, calls, last>>

\* lines 21-31: an HTML response: index the text, start on the anchors
FetchHtml(links, text) ==
  /\ stack # <<>> /\ Top.pc = "fetch"
  /\ anchors + Len(links) <= MaxAnchors
  /\ anchors' = anchors + Len(links)
  /\ fetched' = Append(fetched, Top.url)
  /\ web' = Record(Top.url, "html")
  /\ index' = IndexAfter("html", Top.url, text)
  /\ stack' = [stack EXCEPT ![Len(stack)] = [@ EXCEPT !.links = links, !.text = text, !.i = 1, !.pc = "loop"]]
  /\ UNCHANGED <<visited, calls, last>>

InLoop == stack # <<>> /\ Top.pc = "loop" /\ Top.i <= Len(Top.links)
Href == Top.links[Top.i]
Base == BaseOr(Top.base, Top.url)

\* line 33: an anchor without href, or with an empty one, is passed over
LinkSkip ==
  /\ InLoop /\ Href = EmptyStr
  /\ stack' = Advance(stack)
  /\ UNCHANGED <<visited, index, web, fetched, anchors, calls, last>>

\* line 34: urlparse(href) raises; the except of line 44 is outside the for
\* loop, so the frame logs and returns
LinkRaises ==
  /\ InLoop /\ Href # EmptyStr /\ ParseRaises(Href)
  /\ stack' = Return(stack)
  /\ UNCHANGED <<visited, index, web, fetched, anchors, calls, last>>

\* lines 34-42 with the domain test passing: crawl(href, base_url or url)
LinkFollow ==
  /\ InLoop /\ Href # EmptyStr /\ ~ParseRaises(Href)
  /\ SameDomain(Base, ResolveHref(Base, Href))
  /\ visited' = EnterVisited(ResolveHref(Base, Href))
  /\ stack' = EnterStack(Advance(stack), ResolveHref(Base, Href), <<Base>>)
  /\ UNCHANGED <<index, web, fetched, anchors, calls, last>>

\* lines 34-41 with the domain test failing: next anchor
LinkOutOfDomain ==
  /\ InLoop /\ Href # EmptyStr /\ ~ParseRaises(Href)
  /\ ~SameDomain(Base, ResolveHref(Base, Href))
  /\ stack' = Advance(stack)
  /\ UNCHANGED <<visited, index, web, fetched, anchors, calls, last>>

\* the for loop of line 31 is exhausted: crawl returns
LoopEnd ==
  /\ stack # <<>> /\ Top.pc = "loop" /\ Top.i > Len(Top.links)
  /\ stack' = Return(stack)
  /\ UNCHANGED <<visited, index, web, fetched, anchors, calls, last>>

Next ==
  \/ \E seed \in Seeds : Crawl(seed)
  \/ FetchError
  \/ FetchNonHtml
  \/ \E links \in SeqsUpTo(Hrefs, MaxAnchors - anchors), text \in Texts : FetchHtml(links, text)
  \/ LinkSkip
  \/ LinkRaises
  \/ LinkFollow
  \/ LinkOutOfDomain
  \/ LoopEnd

Spec == Init /\ [][Next]_vars

\* --------------------------------------------------------------- search
\* the characters of page texts and keywords: a letter in both cases, and
\* another letter
Chars == {"k", "K", "x"}
CasedTexts(n) == SeqsUpTo(Chars, n)
Keywords == SeqsUpTo(Chars, MaxKey)

\* str.lower(), on one character and on a string
LowerChar(c) == CASE c = "K" -> "k" [] OTHER -> c
lower(str) == [n \in 1..Len(str) |-> LowerChar(str[n])]

\* `needle in hay` on two strings: hay has needle as a contiguous substring
In(needle, hay) ==
  \E st \in 0..(Len(hay) - Len(needle)) : SubSeq(hay, st + 1, st + Len(needle)) = needle

\* line 50 with the text left in its own case
HitsCaseSensitive(url, text, keyword) ==
  IF In(lower(keyword), text) THEN <<url>> ELSE <<>>

\* lines 50-51 appending the URL for each place the keyword occurs at
HitsPerOccurrence(url, text, keyword) ==
  LET at == {st \in 0..(Len(text) - Len(keyword)) :
               SubSeq(lower(text), st + 1, st + Len(keyword)) = lower(keyword)}
  IN  [n \in 1..Cardinality(at) |-> url]

\* lines 50-51: what one index entry adds to results
Hits(url, text, keyword) ==
  IF In(lower(keyword), lower(text)) THEN <<url>> ELSE <<>>

\* lines 48-52: the loop over self.index.items(), in the dict's order
RECURSIVE Collect(_, _)
Collect(idx, keyword) ==
  IF idx = <<>> THEN <<>>
  ELSE Hits(Head(idx).url, Head(idx).text, keyword) \o Collect(Tail(idx), keyword)

Reverse(sq) == [n \in 1..Len(sq) |-> sq[Len(sq) + 1 - n]]

\* line 51 as results.insert(0, url): the newest entry first
searchNewestFirst(idx, keyword) == Collect(Reverse(idx), keyword)

\* WebCrawler.search(keyword) on the index idx
search(idx, keyword) == Collect(idx, keyword)

\* search normalising the stored texts in place
IndexAfterSearchLowered(idx, keyword) ==
  [n \in 1..Len(idx) |-> [url |-> idx[n].url, text |-> lower(idx[n].text)]]

\* lines 49-50 only read self.index (items(), and lower() returns a copy)
IndexAfterSearch(idx, keyword) == idx

\* a caller calls crawler.search(keyword) while no crawl is running
Search(keyword) ==
  /\ stack = <<>>
  /\ last' = [op |-> "search", keyword |-> keyword, results |-> search(index, keyword)]
  /\ index' = IndexAfterSearch(index, keyword)
  /\ UNCHANGED <<visited, stack, web, fetched, anchors, calls>>

\* the characters of the texts in the index
RECURSIVE IndexedChars(_)
IndexedChars(idx) ==
  IF idx = <<>> THEN 0 ELSE Len(Head(idx).text) + IndexedChars(Tail(idx))

\* crawls of pages that carry text and no anchors, and searches of the index
\* they leave
SearchNext ==
  \/ \E seed \in Seeds : Crawl(seed)
  \/ FetchError
  \/ \E text \in CasedTexts(MaxText - IndexedChars(index)) : FetchHtml(<<>>, text)
  \/ LoopEnd
  \/ \E keyword \in Keywords : Search(keyword)

SearchSpec == Init /\ [][SearchNext]_vars

\* ------------------------------------------------------------ type check
TypeOK ==
  /\ visited \subseteq Hrefs
  /\ IndexKeys(index) \subseteq Hrefs
  /\ DOMAIN web \subseteq Hrefs
  /\ \A u \in DOMAIN web : web[u] \in {"error", "nonhtml", "html"}
  /\ anchors \in 0..MaxAnchors
  /\ Len(calls) <= MaxCalls
  /\ \A k \in 1..Len(stack) : stack[k].pc \in {"fetch", "loop"}

\* ================================================================ claims
Range(f) == {f[k] : k \in DOMAIN f}
Kind(u) == IF u \in DOMAIN web THEN web[u] ELSE "none"

\* C1: in any crawl run, whatever the links (self-links, mutual links,
\* duplicate hrefs on one page), requests.get is issued at most once per URL,
\* and a URL is a member of the visited set at the moment it is fetched: no URL
\* occurs twice in the fetch log, every frame about to fetch holds a visited
\* URL, and every fetched URL is visited.
C1_FetchedOnceAndVisitedFirst ==
  /\ \A i, j \in 1..Len(fetched) : i # j => fetched[i] # fetched[j]
  /\ \A k \in 1..Len(stack) : stack[k].pc = "fetch" => stack[k].url \in visited
  /\ Range(fetched) \subseteq visited

\* a page with the same in-domain href twice has had both anchors processed,
\* after the linked page was fetched
C1_Witness ==
  /\ stack # <<>> /\ Top.pc = "loop" /\ Top.i = 3
  /\ Top.links[1] = AboutUrl /\ Top.links[2] = AboutUrl
  /\ AboutUrl \in Range(fetched)
  /\ Top.url # AboutUrl

\* C2: every key of the index is a member of the visited set, and its fetch
\* succeeded with an HTML content type; a URL whose fetch failed or whose
\* response was not HTML is never an index key.
C2_IndexKeysAreVisitedHtml ==
  /\ \A u \in IndexKeys(index) : u \in visited /\ Kind(u) = "html"
  /\ \A u \in DOMAIN web : web[u] \in {"error", "nonhtml"} => u \notin IndexKeys(index)

\* an indexed page, a failed fetch and a non-HTML response in one run
C2_Witness ==
  /\ index # <<>>
  /\ \E u \in DOMAIN web : web[u] = "error"
  /\ \E u \in DOMAIN web : web[u] = "nonhtml"

\* C3: in the run of crawl(S) on a fresh crawler, no URL whose network
\* location differs from that of S is in the visited set or the index, at any
\* depth of the recursion.
C3_OnlySeedNetloc ==
  Len(calls) = 1 =>
    \A u \in visited \cup IndexKeys(index) :
      urlparse(u).netloc = urlparse(calls[1]).netloc

\* a page below the seed page carried the external href and the loop went past it
C3_Witness ==
  /\ Len(calls) = 1
  /\ Len(stack) >= 2 /\ Top.pc = "loop" /\ Top.i > 1
  /\ Top.links[Top.i - 1] = ExtUrl
  /\ ExtUrl \notin visited

\* --- the terms of section 4.1 of the specification, for the claims below
\* a relative href: non-empty, without a network location
IsRelative(href) == href # EmptyStr /\ ~ParseRaises(href) /\ urlparse(href).netloc = ""

\* resolve(href, baseURL): an absolute href as it is, a relative one joined
StdResolve(base, href) == IF IsRelative(href) THEN urljoin(base, href) ELSE href

\* a well-formed http(s) href that resolves to the network location of base
InScopeLink(base, href) ==
  /\ href # EmptyStr /\ ~ParseRaises(href)
  /\ urlparse(StdResolve(base, href)).scheme \in {"http", "https"}
  /\ urlparse(StdResolve(base, href)).netloc = urlparse(base).netloc

\* the step in which the innermost frame, having parsed its page, returns
PageReturns == stack # <<>> /\ Top.pc = "loop" /\ stack' = Return(stack)

\* C4: a relative href (no network location, e.g. /about) on a fetched HTML
\* page is joined against the base URL and the joined URL is crawled, so it is
\* in the visited set once the loop is past that anchor; and for the seed page
\* https://example.com with the anchors /about and https://external.com the
\* visited set at the end is exactly {seed, seed/about}.
C4_RelativeHrefCrawled ==
  /\ \A k \in 1..Len(stack) :
       stack[k].pc = "loop" =>
         \A j \in 1..Len(stack[k].links) :
           (j < stack[k].i /\ IsRelative(stack[k].links[j])) =>
             urljoin(BaseOr(stack[k].base, stack[k].url), stack[k].links[j]) \in visited
  /\ ( /\ Len(calls) = 1 /\ Len(stack) = 1
       /\ Top.url = SeedUrl /\ Top.pc = "loop"
       /\ Top.links = <<RelAbout, ExtUrl>> /\ Top.i = 3 )
     => visited = {SeedUrl, AboutUrl}

\* C5: crawling, on a fresh crawler, an HTML page whose only anchor is an
\* absolute href equal to the page's own URL ends with exactly that URL in the
\* visited set and exactly one fetch, of that URL.
C5_SelfLinkVisitedOnce ==
  ( /\ Len(calls) = 1 /\ Len(stack) = 1
    /\ Top.url = calls[1] /\ Top.pc = "loop"
    /\ Top.links = <<Top.url>> /\ Top.i = 2 )
  => (visited = {Top.url} /\ fetched = <<Top.url>>)

\* C6: crawl(seed) returns only when no unvisited in-scope link remains: in
\* the step in which the seed's frame returns, every in-scope link of the seed
\* page has been visited.
C6_EndsOnlyWhenExhausted ==
  [][(PageReturns /\ Len(stack) = 1) =>
       \A j \in 1..Len(Top.links) :
         InScopeLink(Base, Top.links[j]) => StdResolve(Base, Top.links[j]) \in visited']_vars

\* C7: a URL whose response is not HTML is in the visited set and is no key of
\* the index; its body is never parsed (no frame of it ever iterates anchors);
\* and when the response arrives only that frame returns: the frames of the
\* pages above it are as they were, the parent in its loop at its next anchor.
C7_NonHtmlVisitedNotIndexed ==
  /\ [](\A u \in DOMAIN web :
          web[u] = "nonhtml" =>
            /\ u \in visited
            /\ u \notin IndexKeys(index)
            /\ \A k \in 1..Len(stack) : stack[k].url = u => stack[k].pc = "fetch")
  /\ [][( /\ stack # <<>> /\ Top.pc = "fetch" /\ fetched' # fetched
          /\ Top.url \in DOMAIN web' /\ web'[Top.url] = "nonhtml" )
        => ( /\ stack' = SubSeq(stack, 1, Len(stack) - 1)
             /\ index' = index
             /\ visited' = visited
             /\ stack' # <<>> => stack'[Len(stack')].pc = "loop" )]_vars

\* the parent of a non-HTML page is back in its loop with an anchor still to do
C7_Witness ==
  /\ stack # <<>> /\ Top.pc = "loop"
  /\ Top.i > 1 /\ Top.i <= Len(Top.links)
  /\ Top.links[Top.i - 1] # EmptyStr /\ ~ParseRaises(Top.links[Top.i - 1])
  /\ ResolveHref(Base, Top.links[Top.i - 1]) # Top.url
  /\ Kind(ResolveHref(Base, Top.links[Top.i - 1])) = "nonhtml"
  /\ ResolveHref(Base, Top.links[Top.i - 1]) \in visited \ IndexKeys(index)

\* C8: a URL whose fetch raised stays in the visited set, is no key of the
\* index and is fetched once; and every in-scope link that follows it on the
\* page that linked to it, and on the pages above that one, is still crawled.
\* For the seed page of a fresh crawler, which is the parent or an ancestor of
\* every other page of the run: when its frame returns, every in-scope link
\* after a link to a URL whose fetch raised is visited.
C8_FetchErrorIsolated ==
  /\ [](\A u \in DOMAIN web :
          web[u] = "error" =>
            /\ u \in visited
            /\ u \notin IndexKeys(index)
            /\ Cardinality({n \in 1..Len(fetched) : fetched[n] = u}) = 1)
  /\ [][(PageReturns /\ Len(stack) = 1 /\ Len(calls) = 1) =>
          \A j, k \in 1..Len(Top.links) :
            ( /\ j < k
              /\ Top.links[j] # EmptyStr /\ ~ParseRaises(Top.links[j])
              /\ SameDomain(Base, ResolveHref(Base, Top.links[j]))
              /\ ResolveHref(Base, Top.links[j]) # Top.url
              /\ Kind(ResolveHref(Base, Top.links[j])) = "error"
              /\ InScopeLink(Base, Top.links[k]) )
            => StdResolve(Base, Top.links[k]) \in visited']_vars

\* C9: when urlparse raises on an href only that link is dropped: the page
\* keeps its index entry and every in-scope href after it on the same page is
\* crawled, so it is visited when the page's frame returns.
C9_OnlyMalformedLinkDropped ==
  [][PageReturns =>
       \A j, k \in 1..Len(Top.links) :
         (j < k /\ ParseRaises(Top.links[j]) /\ InScopeLink(Base, Top.links[k]))
         => ( /\ Top.url \in IndexKeys(index')
              /\ StdResolve(Base, Top.links[k]) \in visited' )]_vars

\* C10: the href htp://example.com (unknown scheme, host of the base) is never
\* crawled: it is never a member of the visited set.
C10_InvalidSchemeNeverVisited == HtpUrl \notin visited

\* --- the terms of section 4.3 of the specification
\* the two cases of a letter are the same letter
Letter(c) == IF c = "k" THEN "K" ELSE c

\* keyword occurs in text as a contiguous substring, case aside
OccursFolded(keyword, text) ==
  \E st \in 0..(Len(text) - Len(keyword)) :
    \A n \in 1..Len(keyword) : Letter(text[st + n]) = Letter(keyword[n])

Count(sq, x) == Cardinality({n \in 1..Len(sq) : sq[n] = x})

C14_ReachableVisitedAndIndexed ==
  [][PageReturns =>
       \A j \in 1..Len(Top.links) :
         InScopeLink(stack[1].url, Top.links[j]) =>
           LET target == StdResolve(stack[1].url, Top.links[j])
           IN  /\ target \in visited'
               /\ Kind(target) = "html" => target \in IndexKeys(index')]_vars

\* the place of x in a sequence that holds it
Pos(sq, x) == CHOOSE n \in 1..Len(sq) : sq[n] = x

\* C15: the sequence search returns has no URL twice, and its URLs are in the
\* insertion order of the index, which is the order in which the pages were
\* fetched as HTML (a fetch that fails leaves no entry).
C15_ResultsInInsertionOrder ==
  last.op = "search" =>
    /\ \A a, b \in 1..Len(last.results) :
         a < b => /\ last.results[a] # last.results[b]
                  /\ last.results[a] \in IndexKeys(index)
                  /\ last.results[b] \in IndexKeys(index)
                  /\ Pos(index, CHOOSE e \in Range(index) : e.url = last.results[a])
                       < Pos(index, CHOOSE e \in Range(index) : e.url = last.results[b])
    /\ \A a, b \in 1..Len(index) :
         a < b => /\ index[a].url \in Range(fetched)
                  /\ index[b].url \in Range(fetched)
                  /\ Pos(fetched, index[a].url) < Pos(fetched, index[b].url)

\* both crawled pages match, and are listed in the order of their fetches
C15_Witness ==
  /\ last.op = "search" /\ last.keyword # <<>>
  /\ Len(fetched) = 2 /\ Len(last.results) = 2
  /\ last.results[1] = fetched[1] /\ last.results[2] = fetched[2]

\* C19: search leaves the index and the visited set as they were, also when it
\* finds nothing.
C19_SearchReadsOnly ==
  [][last'.op = "search" => (index' = index /\ visited' = visited)]_vars

\* a search that found nothing in an index whose text has upper case letters
C19_Witness ==
  /\ last.op = "search" /\ last.results = <<>>
  /\ \E n \in 1..Len(index) : "K" \in Range(index[n].text)
  /\ visited = Range(fetched)

C17_BaseIsSeed ==
  \A k \in 1..Len(stack) :
    /\ stack[1].url = calls[Len(calls)]
    /\ BaseOr(stack[k].base, stack[k].url) = stack[1].url

\* three frames deep, on pages other than the seed
C17_Witness ==
  /\ Len(stack) = 3 /\ Top.pc = "loop" /\ Top.links # <<>>
  /\ stack[2].url # stack[1].url /\ stack[3].url # stack[1].url

\* C18: an index entry, once written, is never changed or removed, and the
\* visited set never loses a member, over the whole life of the crawler with
\* its later crawl calls.
C18_IndexAndVisitedOnlyGrow ==
  [][/\ Len(index') >= Len(index)
     /\ \A n \in 1..Len(index) : index'[n] = index[n]
     /\ visited \subseteq visited']_vars

\* a second crawl call has added its page to the index of the first
C18_Witness ==
  /\ Len(calls) = 2 /\ stack = <<>>
  /\ Len(index) >= 2 /\ index[1].url = calls[1]
  /\ calls[2] \in IndexKeys(index) /\ calls[2] # calls[1]

\* C20: crawl(u) for a URL u that is in the visited set, the seed of an
\* earlier call whose fetch failed included, issues no fetch and leaves the
\* visited set and the index as they were: the call returns at once.
C20_VisitedSeedIsNotCrawledAgain ==
  [][( /\ stack = <<>> /\ Len(calls') = Len(calls) + 1
       /\ calls'[Len(calls')] \in visited )
     => ( /\ stack' = <<>> /\ fetched' = fetched
          /\ visited' = visited /\ index' = index )]_vars

\* the seed whose only fetch failed was crawled a second time
C20_Witness ==
  /\ Len(calls) = 2 /\ calls[2] = calls[1] /\ stack = <<>>
  /\ Kind(calls[1]) = "error" /\ fetched = <<calls[1]>>
  /\ visited = {calls[1]} /\ index = <<>>

\* --- termination: the scheduler is the one Python thread, which always takes
\* the next step of the running call
RunStep ==
  \/ FetchError
  \/ FetchNonHtml
  \/ \E links \in SeqsUpTo(Hrefs, MaxAnchors - anchors), text \in Texts : FetchHtml(links, text)
  \/ LinkSkip
  \/ LinkRaises
  \/ LinkFollow
  \/ LinkOutOfDomain
  \/ LoopEnd

FairSpec == Spec /\ WF_vars(RunStep)

\* every crawl call that was started returns
CrawlReturns == (stack # <<>>) ~> (stack = <<>>)

====
